---- MODULE Spec2Model ----
(***************************************************************************)
(* Copy-trading reconciliation: the cron handler (runCopyTradeHandler),    *)
(* the engine (runCopyTrade), the bet sizing (computeBetSize), the cursor  *)
(* and config store (kv) and the manual reset, as a state machine.         *)
(*                                                                         *)
(* Units: timestamps and the clock are seconds; Date.now() is clock*1000.  *)
(* Prices are hundredths (price 0.50 is 50); money amounts returned by     *)
(* computeBetSize are in 1/Scale of a dollar, so the arithmetic is exact.  *)
(***************************************************************************)
EXTENDS Integers, Sequences, FiniteSets, TLC

\* ------------------------------------------------------------------ bounds
\* page size requested from the activity feed (50 in the code)
PageLimit == 2
\* number of entries the target account's feed ever holds
MaxFeed == 2
\* latest timestamp (seconds) the feed assigns to a trade
MaxTime == 2
\* entries kept in the activity log (50 in the code)
ActivityCap == 1

\* --------------------------------------------------------- program constants
\* copy-trade.ts:129  fiveMinAgo = nowSec - 300
RecencyWindow == 300
\* copy-trade.ts:117  if (cashBalance < 1)
MinBalance == 1
\* copy-trade.ts:68  minPct / 100; prices are counted in hundredths too
PercentUnit == 100
PriceUnit == PercentUnit
Scale == PriceUnit * PercentUnit

\* ----------------------------------------------------------------- helpers
None == <<>>
Some(v) == <<v>>
IsSome(o) == o # <<>>
Get(o) == o[1]
\* a ?? b
OrElse(o, d) == IF IsSome(o) THEN Get(o) ELSE d

Max(a, b) == IF a >= b THEN a ELSE b

\* { ...a, ...b } on objects whose absent fields are None
Merge(a, b) == [f \in (DOMAIN a) \cup (DOMAIN b) |->
                  IF f \in DOMAIN b THEN b[f] ELSE a[f]]

Range(s) == {s[i] : i \in 1..Len(s)}

RECURSIVE Dedup(_)
\* Array.from(new Set(array)): first occurrences, in order
Dedup(s) ==
  IF s = <<>> THEN <<>>
  ELSE LET front == Dedup(SubSeq(s, 1, Len(s) - 1))
           last == s[Len(s)]
       IN IF last \in Range(front) THEN front ELSE Append(front, last)

RECURSIVE Reverse(_)
Reverse(s) == IF s = <<>> THEN <<>> ELSE Append(Reverse(Tail(s)), Head(s))

\* array.slice(0, n)
Slice(s, n) == SubSeq(s, 1, IF Len(s) < n THEN Len(s) ELSE n)

\* String.prototype.toUpperCase on the direction strings of the feed
ToUpperCase(s) ==
  CASE s = "buy" -> "BUY"
    [] s = "Buy" -> "BUY"
    [] s = "sell" -> "SELL"
    [] OTHER -> s

\* ------------------------------------------------------------------- config
DEFAULT_CONFIG ==
  [enabled |-> FALSE, minPercent |-> 5, maxPercent |-> 10, minBetUsd |-> 1]

getConfig(c) == IF IsSome(c) THEN Merge(DEFAULT_CONFIG, Get(c)) ELSE DEFAULT_CONFIG

\* bodies of PATCH /api/config
ConfigPatches == {[enabled |-> TRUE], [enabled |-> FALSE]}

\* ------------------------------------------------------------------- cursor
EmptyState ==
  [lastTimestamp |-> 0, copiedKeys |-> <<>>,
   lastRunAt |-> None, lastCopiedAt |-> None, lastError |-> None]

getState(s) == IF IsSome(s) THEN Get(s) ELSE EmptyState

\* -------------------------------------------------------------------- feed
\* what the target account can trade: the fields of TradeActivity the engine reads
Shapes ==
  { [type |-> "TRADE", transactionHash |-> "0xa", asset |-> "tokA",
     side |-> "BUY", price |-> 50],
    [type |-> "TRADE", transactionHash |-> "0xb", asset |-> "tokB",
     side |-> "sell", price |-> 50],
    [type |-> "TRADE", transactionHash |-> "0xc", asset |-> "tokC",
     side |-> "BUY", price |-> 1],
    [type |-> "TRADE", transactionHash |-> "0xd", asset |-> "tokD",
     side |-> "BUY", price |-> 0] }

\* entries the feed is not expected to report but the engine's parsing lets through:
\* a price above 1, a record of another type, a record without asset
OffShapes ==
  { [type |-> "TRADE", transactionHash |-> "0xe", asset |-> "tokE",
     side |-> "BUY", price |-> PriceUnit + 50],
    [type |-> "REDEEM", transactionHash |-> "0xf", asset |-> "tokF",
     side |-> "BUY", price |-> 50],
    [type |-> "TRADE", transactionHash |-> "0xg", asset |-> "",
     side |-> "BUY", price |-> 50] }

\* balances the snapshot can report (dollars)
Balances == {0, 15}

\* what the order executor can answer
Outcomes == {"ok", "fail", "throw"}

\* getTargetActivity(address, limit): newest first, at most limit entries
getTargetActivity(f, limit) == Slice(Reverse(f), limit)

\* ------------------------------------------------------------------ sizing
\* computeBetSize, amounts in 1/Scale dollars
computeBetSize_Clamp(cashBalance, price, minPct, maxPct, minUsd) ==
  LET pct == minPct * PriceUnit + price * (maxPct - minPct)
      amount == cashBalance * pct
  IN Max(amount, minUsd * Scale)

computeBetSize(cashBalance, price, minPct, maxPct, minUsd) ==
  LET pct == minPct * PriceUnit + price * (maxPct - minPct)
      amount == cashBalance * pct
  IN IF amount >= minUsd * Scale THEN Max(amount, minUsd * Scale) ELSE 0

\* ------------------------------------------------------------------ engine
\* the key of an entry whose transactionHash and side may be missing (None)
KeyOf(transactionHash, asset, side) ==
  LET txHash == OrElse(transactionHash, "")
      sideStr == ToUpperCase(OrElse(side, "BUY"))
  IN txHash \o "|" \o asset \o "|" \o sideStr

\* the key of an entry that has every field
CopyKey(act) == KeyOf(Some(act.transactionHash), act.asset, Some(act.side))

IsFirstRun(lastTimestamp, copiedSet) == lastTimestamp = 0 /\ Len(copiedSet) = 0

NowSec(clk) == (clk * 1000) \div 1000

FiveMinAgo(nowSec) == nowSec - RecencyWindow

BetUsd(act, cashBalance, cfg) ==
  computeBetSize(cashBalance, act.price, cfg.minPercent, cfg.maxPercent, cfg.minBetUsd)

\* the conditions of the loop's `continue` statements
NotNewer_Strict(ts, lastTimestamp) == ts < lastTimestamp
NotNewer(ts, lastTimestamp) == ts <= lastTimestamp

OutsideWindow_Inclusive(ts, isFirstRun, fiveMinAgo) == isFirstRun /\ ts <= fiveMinAgo
OutsideWindow(ts, isFirstRun, fiveMinAgo) == isFirstRun /\ ts < fiveMinAgo

Malformed_PriceOnly(asset, price) == price <= 0
Malformed(asset, price) == asset = "" \/ price <= 0

AlreadyCopied_Never(key, copiedSet) == FALSE
AlreadyCopied(key, copiedSet) == key \in Range(copiedSet)

BelowFloor(betUsd, minBetUsd) == betUsd < minBetUsd * Scale

\* the loop body up to the order submission: which `continue` is taken, if any
Decision(act, lastTimestamp, copiedSet, isFirstRun, fiveMinAgo, cashBalance, cfg) ==
  CASE act.type # "TRADE" -> "skip_type"
    [] NotNewer(act.timestamp, lastTimestamp) -> "skip_ts"
    [] OutsideWindow(act.timestamp, isFirstRun, fiveMinAgo) -> "skip_window"
    [] Malformed(act.asset, act.price) -> "skip_invalid"
    [] AlreadyCopied(CopyKey(act), copiedSet) -> "skip_dup"
    [] BelowFloor(BetUsd(act, cashBalance, cfg), cfg.minBetUsd) -> "skip_floor"
    [] OTHER -> "submit"

Advance_Keep(lastTimestamp, ts) == lastTimestamp
\* lastTimestamp after a successful order
Advance(lastTimestamp, ts) == Max(lastTimestamp, ts)

\* result.error after one more failure message
JoinError(error, msg) ==
  IF IsSome(error) /\ Get(error) # "" THEN Some(Get(error) \o "; " \o msg) ELSE Some(msg)

ErrorMessage(outcome) == IF outcome = "fail" THEN "not matched" ELSE "request failed"

EmptyResult ==
  [copied |-> 0, failed |-> 0, error |-> None, lastTimestamp |-> None,
   copiedKeys |-> <<>>, copiedTrades |-> <<>>]

\* ----------------------------------------------------------------- handler
\* the cursor fields the handler hands to setState
PersistedLastTimestamp_Zero(result, state) == OrElse(result.lastTimestamp, 0)
PersistedLastTimestamp(result, state) == OrElse(result.lastTimestamp, state.lastTimestamp)

PersistedCopiedKeys_Returned(result, state) == result.copiedKeys
PersistedCopiedKeys_Stale(result, state) == state.copiedKeys
PersistedCopiedKeys(result, state) ==
  IF Len(result.copiedKeys) > 0 THEN result.copiedKeys ELSE state.copiedKeys

StateUpdate_AlwaysCopiedAt(result, state, clk) ==
  [lastTimestamp |-> PersistedLastTimestamp(result, state),
   copiedKeys |-> PersistedCopiedKeys(result, state),
   lastRunAt |-> Some(clk * 1000),
   lastCopiedAt |-> Some(clk * 1000),
   lastError |-> result.error]
StateUpdate(result, state, clk) ==
  [lastTimestamp |-> PersistedLastTimestamp(result, state),
   copiedKeys |-> PersistedCopiedKeys(result, state),
   lastRunAt |-> Some(clk * 1000),
   lastCopiedAt |-> IF result.copied > 0 THEN Some(clk * 1000) ELSE state.lastCopiedAt,
   lastError |-> result.error]

\* setState: read, merge, write
setState(s, update) == Some(Merge(getState(s), update))

appendActivity_Tail(log, trades) ==
  IF Len(trades) = 0 THEN log ELSE Slice(log \o trades, ActivityCap)

\* appendActivity: newest first, capped
appendActivity(log, trades) ==
  IF Len(trades) = 0 THEN log ELSE Slice(trades \o log, ActivityCap)

\* ------------------------------------------------------------------- state
Passes == {1, 2}

VARIABLES
  kvConfig,    \* copy_trader_config in the store (None: never written)
  kvState,     \* copy_trader_state in the store (None: never written)
  kvActivity,  \* copy_trader_activity in the store
  feed,        \* the target account's trades, oldest first
  clock,       \* wall clock, seconds
  pass,        \* per invocation of the cron handler: its locals
  filled,      \* history: keys the executor filled
  submitted,   \* history: keys ever sent to the executor
  armed,       \* history: Some(keys cleared) from a reset until the cursor is next read or written
  sizing,      \* a call of computeBetSize: its arguments and, once it returned, its result
  appending,   \* a call of appendActivity in flight: Some(its argument)
  cron,        \* the trigger route: CRON_SECRET, the last request it served, its own answer
  keying       \* two fetched events and, once the loop has built them, their keys

vars == <<kvConfig, kvState, kvActivity, feed, clock, pass, filled, submitted, armed, sizing,
          appending, cron, keying>>

\* no events
NoKeying == [first |-> None, second |-> None, out |-> None]

\* CRON_SECRET is not set and no request has been served
NoCron ==
  [secret |-> None, request |-> [method |-> "", authorization |-> None], status |-> None]

\* no call of computeBetSize outside a pass
NoSizing == [equity |-> 0, price |-> 0, minPct |-> 0, maxPct |-> 0, minUsd |-> 0, out |-> None]

IdlePass ==
  [pc |-> "idle",
   config |-> DEFAULT_CONFIG, state |-> EmptyState,
   cashBalance |-> 0, activities |-> <<>>, i |-> 1,
   lastTimestamp |-> 0, copiedSet |-> <<>>, isFirstRun |-> FALSE, nowSec |-> 0,
   result |-> EmptyResult, trace |-> <<>>, orders |-> <<>>, cleared |-> None]

Init ==
  /\ kvConfig = None
  /\ kvState = None
  /\ kvActivity = <<>>
  /\ feed = <<>>
  /\ clock = MaxTime
  /\ pass = [p \in Passes |-> IdlePass]
  /\ filled = {}
  /\ submitted = {}
  /\ armed = None
  /\ sizing = NoSizing
  /\ appending = None
  /\ cron = NoCron
  /\ keying = NoKeying

Resting(p) == pass[p].pc = "idle"

\* ------------------------------------------------------------- environment
\* the target account trades; the feed reports the trade, with its timestamp, some
\* time later (timestamps are monotonic per account, not unique)
FeedTimes == {t \in 1..MaxTime : Len(feed) = 0 \/ t >= feed[Len(feed)].timestamp}

TargetTrade ==
  /\ Len(feed) < MaxFeed
  /\ \E s \in Shapes, t \in FeedTimes :
       feed' = Append(feed, Merge(s, [timestamp |-> t]))
  /\ UNCHANGED <<keying, cron, appending, sizing, kvConfig, kvState, kvActivity, clock, pass, filled, submitted, armed>>

\* the feed reports an entry of the other kind
TargetTradeOff ==
  /\ Len(feed) < MaxFeed
  /\ \E s \in OffShapes, t \in FeedTimes :
       feed' = Append(feed, Merge(s, [timestamp |-> t]))
  /\ UNCHANGED <<keying, cron, appending, sizing, kvConfig, kvState, kvActivity, clock, pass, filled, submitted, armed>>

\* five minutes go by
Wait ==
  /\ clock < RecencyWindow
  /\ clock' = clock + RecencyWindow
  /\ UNCHANGED <<keying, cron, appending, sizing, kvConfig, kvState, kvActivity, feed, pass, filled, submitted, armed>>

\* ------------------------------------------------------------------ config
setConfig_Replace(patch) ==
  /\ kvConfig' = Some(Merge(DEFAULT_CONFIG, patch))
  /\ UNCHANGED <<keying, cron, appending, sizing, kvState, kvActivity, feed, clock, pass, filled, submitted, armed>>

setConfig(patch) ==
  /\ kvConfig' = Some(Merge(getConfig(kvConfig), patch))
  /\ UNCHANGED <<keying, cron, appending, sizing, kvState, kvActivity, feed, clock, pass, filled, submitted, armed>>

PatchConfig == \E patch \in ConfigPatches : setConfig(patch)

\* ------------------------------------------------------------------- reset
\* POST /api/reset-sync: resetSyncState overwrites the whole cursor record
resetSyncState_KeepKeys ==
  /\ kvState' = Some(Merge(EmptyState, [copiedKeys |-> getState(kvState).copiedKeys]))
  /\ armed' = Some(Range(getState(kvState).copiedKeys))
  /\ UNCHANGED <<keying, cron, appending, sizing, kvConfig, kvActivity, feed, clock, pass, filled, submitted>>

resetSyncState ==
  /\ kvState' = Some(EmptyState)
  /\ armed' = Some(Range(getState(kvState).copiedKeys))
  /\ UNCHANGED <<keying, cron, appending, sizing, kvConfig, kvActivity, feed, clock, pass, filled, submitted>>

\* the reset arrives while no pass is in flight
ResetWhenIdle == (\A p \in Passes : pass[p].pc = "idle") /\ resetSyncState

\* -------------------------------------------------------------------- pass
Set(p, fields) == pass' = [pass EXCEPT ![p] = Merge(pass[p], fields)]

Trigger_IgnoresEnabled(p) ==
  /\ Resting(p)
  /\ pass' = [pass EXCEPT ![p] =
                Merge(IdlePass, [pc |-> "balance", config |-> getConfig(kvConfig),
                                 state |-> getState(kvState), cleared |-> armed])]
  /\ armed' = None
  /\ UNCHANGED <<keying, cron, appending, sizing, kvConfig, kvState, kvActivity, feed, clock, filled, submitted>>
\* runCopyTradeHandler up to the call of the engine: getConfig, the enabled gate,
\* getState
runCopyTradeHandler(p) ==
  /\ Resting(p)
  /\ LET config == getConfig(kvConfig) IN
       IF ~config.enabled
       THEN UNCHANGED <<pass, armed>>
       ELSE /\ pass' = [pass EXCEPT ![p] =
                          Merge(IdlePass, [pc |-> "balance", config |-> config,
                                           state |-> getState(kvState),
                                           cleared |-> armed])]
            /\ armed' = None
  /\ UNCHANGED <<keying, appending, sizing, kvConfig, kvState, kvActivity, feed, clock, filled, submitted>>

\* GET /api/copy-trade by the scheduler, which the route lets through
Trigger(p) == runCopyTradeHandler(p) /\ UNCHANGED cron

Fault_RecordsError(p) ==
  /\ pass[p].pc \in {"balance", "activity"}
  /\ pass' = [pass EXCEPT ![p] = IdlePass]
  /\ kvState' = setState(kvState, [lastError |-> Some("request failed")])
  /\ UNCHANGED <<keying, cron, appending, sizing, kvConfig, kvActivity, feed, clock, filled, submitted, armed>>
\* an awaited call of the engine throws: the handler's catch answers 500, nothing is written
Fault(p) ==
  /\ pass[p].pc \in {"balance", "activity"}
  /\ pass' = [pass EXCEPT ![p] = IdlePass]
  /\ UNCHANGED <<keying, cron, appending, sizing, kvConfig, kvState, kvActivity, feed, clock, filled, submitted, armed>>

\* the platform ends the invocation at one of the engine's awaits (maxDuration): the
\* order being awaited may or may not have reached the executor, nothing is written
Timeout(p) ==
  /\ pass[p].pc \in {"balance", "activity", "loop"}
  /\ pass' = [pass EXCEPT ![p] = IdlePass]
  /\ UNCHANGED <<keying, cron, appending, sizing, kvConfig, kvState, kvActivity, feed, clock, filled, submitted, armed>>
\* the engine has returned and the invocation ends before setState completes (the
\* store rejects the write, or the platform ends the invocation): the catch answers
\* 500, the result is lost
StoreFault(p) ==
  /\ pass[p].pc = "persist"
  /\ pass' = [pass EXCEPT ![p] = IdlePass]
  /\ UNCHANGED <<keying, cron, appending, sizing, kvConfig, kvState, kvActivity, feed, clock, filled, submitted, armed>>

\* getCashBalance and the low-balance return; the snapshot reports one of balances
ReadBalance(p, balances) ==
  /\ pass[p].pc = "balance"
  /\ \E b \in balances :
       IF b < MinBalance
       THEN Set(p, [pc |-> "persist", cashBalance |-> b,
                    result |-> Merge(EmptyResult, [error |-> Some("Low balance")])])
       ELSE Set(p, [pc |-> "activity", cashBalance |-> b])
  /\ UNCHANGED <<keying, cron, appending, sizing, kvConfig, kvState, kvActivity, feed, clock, filled, submitted, armed>>

FetchActivity_Fresh(p) ==
  /\ pass[p].pc = "activity"
  /\ LET state == getState(kvState)
         copiedSet == Dedup(state.copiedKeys)
     IN Set(p, [pc |-> "loop",
                activities |-> getTargetActivity(feed, PageLimit),
                lastTimestamp |-> state.lastTimestamp,
                copiedSet |-> copiedSet,
                isFirstRun |-> IsFirstRun(state.lastTimestamp, copiedSet),
                nowSec |-> NowSec(clock),
                i |-> 1])
  /\ UNCHANGED <<keying, cron, appending, sizing, kvConfig, kvState, kvActivity, feed, clock, filled, submitted, armed>>
FetchBalance(p) == ReadBalance(p, Balances)

\* the account is funded
FetchBalanceFunded(p) == ReadBalance(p, {b \in Balances : b >= MinBalance})

\* getTargetActivity and the set-up of the loop
FetchActivity(p) ==
  /\ pass[p].pc = "activity"
  /\ LET state == pass[p].state
         copiedSet == Dedup(state.copiedKeys)
     IN Set(p, [pc |-> "loop",
                activities |-> getTargetActivity(feed, PageLimit),
                lastTimestamp |-> state.lastTimestamp,
                copiedSet |-> copiedSet,
                isFirstRun |-> IsFirstRun(state.lastTimestamp, copiedSet),
                nowSec |-> NowSec(clock),
                i |-> 1])
  /\ UNCHANGED <<keying, cron, appending, sizing, kvConfig, kvState, kvActivity, feed, clock, filled, submitted, armed>>

OrderParams_AlwaysLimit(act, betUsd) ==
  LET sideStr == ToUpperCase(act.side)
      side == IF sideStr = "BUY" THEN "BUY" ELSE "SELL"
  IN [tokenID |-> act.asset, amount |-> betUsd, side |-> side, orderType |-> "FOK",
      price |-> Some(act.price)]
\* the order the engine builds for an entry
OrderParams(act, betUsd) ==
  LET sideStr == ToUpperCase(act.side)
      side == IF sideStr = "BUY" THEN "BUY" ELSE "SELL"
  IN [tokenID |-> act.asset, amount |-> betUsd, side |-> side, orderType |-> "FOK",
      price |-> IF side = "SELL" THEN Some(act.price) ELSE None]

\* the record pushed to result.copiedTrades
CopiedTrade(act, betUsd, clk) ==
  LET sideStr == ToUpperCase(act.side) IN
  [title |-> "Unknown", outcome |-> IF sideStr = "BUY" THEN "Yes" ELSE "No",
   side |-> sideStr, amountUsd |-> betUsd, price |-> act.price,
   asset |-> act.asset, timestamp |-> clk * 1000]

OnSuccess_InPlace(l, act, betUsd, clk) ==
  [copiedSet |-> Dedup(Append(l.copiedSet, CopyKey(act))),
   lastTimestamp |-> Advance(l.lastTimestamp, act.timestamp),
   state |-> Merge(l.state, [copiedKeys |-> Append(l.state.copiedKeys, CopyKey(act)),
                             lastTimestamp |-> Advance(l.lastTimestamp, act.timestamp)]),
   result |-> Merge(l.result,
                [copied |-> l.result.copied + 1,
                 copiedTrades |-> Append(l.result.copiedTrades,
                                         CopiedTrade(act, betUsd, clk))])]
OnSuccess_OnlyNew(l, act, betUsd, clk) ==
  [copiedSet |-> <<CopyKey(act)>>,
   lastTimestamp |-> Advance(l.lastTimestamp, act.timestamp),
   result |-> Merge(l.result,
                [copied |-> l.result.copied + 1,
                 copiedTrades |-> Append(l.result.copiedTrades,
                                         CopiedTrade(act, betUsd, clk))])]
\* what a successful order does to the locals
OnSuccess(l, act, betUsd, clk) ==
  [copiedSet |-> Dedup(Append(l.copiedSet, CopyKey(act))),
   lastTimestamp |-> Advance(l.lastTimestamp, act.timestamp),
   result |-> Merge(l.result,
                [copied |-> l.result.copied + 1,
                 copiedTrades |-> Append(l.result.copiedTrades,
                                         CopiedTrade(act, betUsd, clk))])]

OnFailure_Advance(l, act, outcome) ==
  [copiedSet |-> l.copiedSet,
   lastTimestamp |-> Advance(l.lastTimestamp, act.timestamp),
   result |-> Merge(l.result,
                [failed |-> l.result.failed + 1,
                 error |-> JoinError(l.result.error, ErrorMessage(outcome))])]

OnFailure_ThrowUncounted(l, act, outcome) ==
  [copiedSet |-> l.copiedSet,
   lastTimestamp |-> l.lastTimestamp,
   result |-> Merge(l.result,
                [failed |-> IF outcome = "fail" THEN l.result.failed + 1 ELSE l.result.failed,
                 error |-> JoinError(l.result.error, ErrorMessage(outcome))])]
\* what a failure response, or a thrown error, does to the locals
OnFailure(l, act, outcome) ==
  [copiedSet |-> l.copiedSet,
   lastTimestamp |-> l.lastTimestamp,
   result |-> Merge(l.result,
                [failed |-> l.result.failed + 1,
                 error |-> JoinError(l.result.error, ErrorMessage(outcome))])]

Iterate_RetryOnce(p, outcomes) ==
  LET l == pass[p] IN
  /\ l.pc = "loop"
  /\ l.i <= Len(l.activities)
  /\ LET act == l.activities[l.i]
         d == Decision(act, l.lastTimestamp, l.copiedSet, l.isFirstRun,
                       FiveMinAgo(l.nowSec), l.cashBalance, l.config)
         betUsd == BetUsd(act, l.cashBalance, l.config)
         again == Len(l.orders) = 0 \/ l.orders[Len(l.orders)].at # l.i
     IN IF d # "submit"
        THEN /\ Set(p, [i |-> l.i + 1, trace |-> Append(l.trace, d)])
             /\ UNCHANGED <<filled, submitted>>
        ELSE \E outcome \in outcomes :
               /\ Set(p, Merge(IF outcome = "ok"
                               THEN OnSuccess(l, act, betUsd, clock)
                               ELSE OnFailure(l, act, outcome),
                               [i |-> IF outcome # "ok" /\ again THEN l.i ELSE l.i + 1,
                                trace |-> IF outcome # "ok" /\ again THEN l.trace
                                          ELSE Append(l.trace, outcome),
                                orders |-> Append(l.orders,
                                  Merge(OrderParams(act, betUsd),
                                        [key |-> CopyKey(act), at |-> l.i, outcome |-> outcome]))]))
               /\ submitted' = submitted \cup {CopyKey(act)}
               /\ filled' = IF outcome = "ok" THEN filled \cup {CopyKey(act)} ELSE filled
  /\ UNCHANGED <<keying, cron, appending, sizing, kvConfig, kvState, kvActivity, feed, clock, armed>>
\* one iteration of the for loop, the order submission and its answer included; the
\* executor answers with one of outcomes
Iterate(p, outcomes) ==
  LET l == pass[p] IN
  /\ l.pc = "loop"
  /\ l.i <= Len(l.activities)
  /\ LET act == l.activities[l.i]
         d == Decision(act, l.lastTimestamp, l.copiedSet, l.isFirstRun,
                       FiveMinAgo(l.nowSec), l.cashBalance, l.config)
         betUsd == BetUsd(act, l.cashBalance, l.config)
     IN IF d # "submit"
        THEN /\ Set(p, [i |-> l.i + 1, trace |-> Append(l.trace, d)])
             /\ UNCHANGED <<filled, submitted>>
        ELSE \E outcome \in outcomes :
               /\ Set(p, Merge(IF outcome = "ok"
                               THEN OnSuccess(l, act, betUsd, clock)
                               ELSE OnFailure(l, act, outcome),
                               [i |-> l.i + 1,
                                trace |-> Append(l.trace, outcome),
                                orders |-> Append(l.orders,
                                  Merge(OrderParams(act, betUsd),
                                        [key |-> CopyKey(act), at |-> l.i, outcome |-> outcome]))]))
               /\ submitted' = submitted \cup {CopyKey(act)}
               /\ filled' = IF outcome = "ok" THEN filled \cup {CopyKey(act)} ELSE filled
  /\ UNCHANGED <<keying, cron, appending, sizing, kvConfig, kvState, kvActivity, feed, clock, armed>>

ProcessEntry(p) == Iterate(p, Outcomes)

\* the executor answers: filled, or not matched
ProcessEntryAnswered(p) == Iterate(p, {"ok", "fail"})

\* the executor fills the order
ProcessEntryFilled(p) == Iterate(p, {"ok"})

Return_KeepCursorOnFailure(p) ==
  LET l == pass[p] IN
  /\ l.pc = "loop"
  /\ l.i > Len(l.activities)
  /\ Set(p, [pc |-> "persist",
             result |-> Merge(l.result,
                [lastTimestamp |-> Some(IF l.result.failed > 0 THEN l.state.lastTimestamp
                                        ELSE l.lastTimestamp),
                 copiedKeys |-> IF l.result.failed > 0 THEN l.state.copiedKeys
                                ELSE l.copiedSet])])
  /\ UNCHANGED <<keying, cron, appending, sizing, kvConfig, kvState, kvActivity, feed, clock, filled, submitted, armed>>

\* the end of the loop: the engine returns its result
Return(p) ==
  LET l == pass[p] IN
  /\ l.pc = "loop"
  /\ l.i > Len(l.activities)
  /\ Set(p, [pc |-> "persist",
             result |-> Merge(l.result, [lastTimestamp |-> Some(l.lastTimestamp),
                                         copiedKeys |-> l.copiedSet])])
  /\ UNCHANGED <<keying, cron, appending, sizing, kvConfig, kvState, kvActivity, feed, clock, filled, submitted, armed>>

\* the handler persists the result: setState, then appendActivity
Persist(p) ==
  LET l == pass[p] IN
  /\ l.pc = "persist"
  /\ kvState' = setState(kvState, StateUpdate(l.result, l.state, clock))
  /\ kvActivity' = appendActivity(kvActivity, l.result.copiedTrades)
  /\ armed' = None
  /\ pass' = [pass EXCEPT ![p] = IdlePass]
  /\ UNCHANGED <<keying, cron, appending, sizing, kvConfig, feed, clock, filled, submitted>>

Step(p) ==
  \/ Trigger(p)
  \/ Fault(p)
  \/ FetchBalance(p)
  \/ FetchActivity(p)
  \/ ProcessEntry(p)
  \/ Return(p)
  \/ Persist(p)

\* serialized passes: the trigger fires one pass at a time, and the feed, the clock
\* and the config are sampled between passes (a pass reads the config and the cursor
\* when triggered and the feed once; what moves during a pass it sees in the next)
SerialStep == Step(1)

Quiet == \A p \in Passes : Resting(p)

Environment ==
  \/ Quiet /\ TargetTrade
  \/ Quiet /\ Wait
  \/ Quiet /\ PatchConfig

NextNoReset == SerialStep \/ Environment

SpecNoReset == Init /\ [][NextNoReset]_vars

Next == SerialStep \/ Environment \/ ResetWhenIdle

Spec == Init /\ [][Next]_vars

\* serialized passes that the platform may cut short
NextAbort == NextNoReset \/ Timeout(1) \/ StoreFault(1)

SpecAbort == Init /\ [][NextAbort]_vars

\* the trigger does not serialize: a second invocation may start, run and persist
\* while the first is in flight
Run(p) ==
  \/ FetchBalance(p)
  \/ FetchActivity(p)
  \/ ProcessEntryAnswered(p)
  \/ Return(p)
  \/ Persist(p)

\* pass 1 is the invocation that started first
First == (Resting(2) /\ Trigger(1)) \/ Run(1)
Second == (~Resting(1) /\ Trigger(2)) \/ Run(2)

NextOverlap ==
  \/ First
  \/ Second
  \/ Quiet /\ TargetTrade
  \/ Quiet /\ PatchConfig

SpecOverlap == Init /\ [][NextOverlap]_vars

\* the schedule keeps running: copy trading is switched on and stays on, passes are
\* triggered one at a time, the account is funded, the fetches succeed, every pass
\* runs to its end, and the executor, asked again and again, eventually fills
EnableConfig == setConfig([enabled |-> TRUE])

NextLive ==
  \/ Quiet /\ EnableConfig
  \/ Quiet /\ TargetTrade
  \/ Trigger(1)
  \/ FetchBalanceFunded(1)
  \/ FetchActivity(1)
  \/ ProcessEntryAnswered(1)
  \/ Return(1)
  \/ Persist(1)

\* the executor fills an order of pass p for an event of shape s
Fills(p, s) ==
  /\ ProcessEntryFilled(p)
  /\ Len(pass'[p].orders) = Len(pass[p].orders) + 1
  /\ pass'[p].orders[Len(pass'[p].orders)].key = CopyKey(s)

Fairness ==
  /\ WF_vars(Quiet /\ EnableConfig)
  /\ WF_vars(Trigger(1))
  /\ WF_vars(FetchBalanceFunded(1))
  /\ WF_vars(FetchActivity(1))
  /\ WF_vars(ProcessEntryAnswered(1))
  /\ \A s \in Shapes : SF_vars(Fills(1, s))
  /\ WF_vars(Return(1))
  /\ WF_vars(Persist(1))

SpecLive == Init /\ [][NextLive]_vars /\ Fairness

\* every external call of a pass returns or throws: a pass that has started keeps
\* taking its next step (the balance fetch, the activity fetch and each order
\* submission either answer or throw), whatever the answers are
Proceeds(p) ==
  \/ Fault(p)
  \/ FetchBalance(p)
  \/ FetchActivity(p)
  \/ ProcessEntry(p)
  \/ Return(p)
  \/ Persist(p)

NextAnswered ==
  \/ Quiet /\ EnableConfig
  \/ Quiet /\ TargetTrade
  \/ Trigger(1)
  \/ Proceeds(1)

SpecAnswered == Init /\ [][NextAnswered]_vars /\ WF_vars(Proceeds(1))

\* POST /api/reset-sync is served while a pass is in flight: the pass has read the
\* cursor and has not persisted yet
ResetInFlight == (\E p \in Passes : ~Resting(p)) /\ resetSyncState

NextResetInFlight == Next \/ ResetInFlight

SpecResetInFlight == Init /\ [][NextResetInFlight]_vars

\* ------------------------------------------------------ the trigger route
\* values of the CRON_SECRET environment variable: not set, set to "", set
CronSecrets == {None, Some(""), Some("s3cret")}

\* Authorization headers of a request: none, the scheduler's, and near misses
Headers ==
  {None, Some("Bearer s3cret"), Some("bearer s3cret"), Some("s3cret")}

\* if (CRON_SECRET): a non-empty string
Truthy(secret) == IsSome(secret) /\ Get(secret) # ""

Unauthorized_MissingOnly(secret, auth) == Truthy(secret) /\ auth = None
\* the check of GET: CRON_SECRET is set and the header is not `Bearer ${CRON_SECRET}`
Unauthorized(secret, auth) ==
  Truthy(secret) /\ auth # Some("Bearer " \o Get(secret))

\* the route answers by itself, nothing else happens
Answer(method, auth, status) ==
  /\ cron' = [cron EXCEPT !.request = [method |-> method, authorization |-> auth],
                          !.status = Some(status)]
  /\ UNCHANGED <<keying, appending, sizing, kvConfig, kvState, kvActivity, feed, clock, pass,
                 filled, submitted, armed>>

\* GET /api/copy-trade
GET(p) ==
  \E auth \in Headers :
    IF Unauthorized(cron.secret, auth)
    THEN Answer("GET", auth, 401)
    ELSE /\ runCopyTradeHandler(p)
         /\ cron' = [cron EXCEPT !.request = [method |-> "GET", authorization |-> auth],
                                 !.status = None]

\* POST /api/copy-trade
POST == \E auth \in {None, Some("Bearer s3cret")} : Answer("POST", auth, 405)

\* the deployment sets CRON_SECRET, or leaves it out
CronInit ==
  /\ kvConfig = None
  /\ kvState = None
  /\ kvActivity = <<>>
  /\ feed = <<>>
  /\ clock = MaxTime
  /\ pass = [p \in Passes |-> IdlePass]
  /\ filled = {}
  /\ submitted = {}
  /\ armed = None
  /\ sizing = NoSizing
  /\ appending = None
  /\ keying = NoKeying
  /\ \E secret \in CronSecrets : cron = [NoCron EXCEPT !.secret = secret]

\* requests reach the route at any time; a pass that was let through runs to its end
NextCron ==
  \/ Quiet /\ PatchConfig
  \/ Quiet /\ TargetTrade
  \/ GET(1)
  \/ POST
  \/ FetchBalanceFunded(1)
  \/ FetchActivity(1)
  \/ ProcessEntryAnswered(1)
  \/ Return(1)
  \/ Persist(1)

SpecCron == CronInit /\ [][NextCron]_vars

\* serialized passes over a feed that may hold any entry the parsing lets through
NextAnyFeed == NextNoReset \/ (Quiet /\ TargetTradeOff)

SpecAnyFeed == Init /\ [][NextAnyFeed]_vars

\* ------------------------------------------------------- the config alone
\* bodies of PATCH /api/config: any Partial<CopyTraderConfig>, one field at a time
\* as the dashboard sends them, or the two percents together
ConfigBodies ==
  {[enabled |-> b] : b \in BOOLEAN}
    \cup {[minPercent |-> n] : n \in {1, 5, 9, 20}}
    \cup {[maxPercent |-> n] : n \in {2, 10, 11, 50}}
    \cup {[minBetUsd |-> n] : n \in {1, 2, 5, 10}}
    \cup {[minPercent |-> 9, maxPercent |-> 11]}

PatchAnyConfig == \E patch \in ConfigBodies : setConfig(patch)

NextConfig == PatchAnyConfig \/ ResetWhenIdle

SpecConfig == Init /\ [][NextConfig]_vars

\* -------------------------------------------------- the activity log alone
\* records a caller can hand to appendActivity: the copied trade of each shape
LogTrades ==
  {CopiedTrade(Merge(s, [timestamp |-> MaxTime]), BetUsd(s, 15, DEFAULT_CONFIG), MaxTime) :
     s \in Shapes}

\* arguments of a call: no trade, one trade, two trades
LogCalls == {<<>>} \cup {<<t>> : t \in LogTrades} \cup {<<t, u>> : t, u \in LogTrades}

\* appendActivity(trades) is called
CallAppendActivity ==
  /\ appending = None
  /\ \E trades \in LogCalls : appending' = Some(trades)
  /\ UNCHANGED <<keying, cron, sizing, kvConfig, kvState, kvActivity, feed, clock, pass, filled, submitted, armed>>

\* the call reads the log, writes it back and returns
AppendActivity ==
  /\ IsSome(appending)
  /\ kvActivity' = appendActivity(kvActivity, Get(appending))
  /\ appending' = None
  /\ UNCHANGED <<keying, cron, sizing, kvConfig, kvState, feed, clock, pass, filled, submitted, armed>>

NextActivity == CallAppendActivity \/ AppendActivity \/ (appending = None /\ ResetWhenIdle)

SpecActivity == Init /\ [][NextActivity]_vars

\* ------------------------------------------------------ computeBetSize alone
\* arguments: equity in dollars, price in hundredths, percents, floor in dollars; the
\* percents and the floor are whatever PATCH /api/config stored, negative values included
SizingEquities == {-10, 0, 10, 1000}
SizingPrices == {0, 1, 50, 100}
SizingMinPercents == {-50, 0, 5}
SizingMaxPercents == {10, 100}
SizingFloors == {-5, 0, 1, 5}

SizingInit ==
  /\ kvConfig = None
  /\ kvState = None
  /\ kvActivity = <<>>
  /\ feed = <<>>
  /\ clock = MaxTime
  /\ pass = [p \in Passes |-> IdlePass]
  /\ filled = {}
  /\ submitted = {}
  /\ armed = None
  /\ appending = None
  /\ cron = NoCron
  /\ keying = NoKeying
  /\ \E e \in SizingEquities, pr \in SizingPrices, lo \in SizingMinPercents,
        hi \in SizingMaxPercents, fl \in SizingFloors :
       sizing = [equity |-> e, price |-> pr, minPct |-> lo, maxPct |-> hi,
                 minUsd |-> fl, out |-> None]

\* the call returns
ComputeBetSize ==
  /\ sizing.out = None
  /\ sizing' = [sizing EXCEPT !.out =
                  Some(computeBetSize(sizing.equity, sizing.price, sizing.minPct,
                                      sizing.maxPct, sizing.minUsd))]
  /\ UNCHANGED <<keying, cron, appending, kvConfig, kvState, kvActivity, feed, clock, pass, filled, submitted, armed>>

NextSizing == ComputeBetSize

SpecSizing == SizingInit /\ [][NextSizing]_vars

\* ------------------------------------------------------------ the key alone
\* fields of a fetched entry as the feed's JSON can hold them: transactionHash and
\* side may be missing; the strings are not validated
KeyHashes == {None, Some(""), Some("0xa"), Some("0xa|t")}
KeyAssets == {"t", "t|t"}
KeySides == {None, Some("BUY"), Some("buy"), Some("SELL")}
\* the fields the key does not read: timestamp, price, size, title
KeyRests ==
  {[timestamp |-> 1, price |-> 50, size |-> 10, title |-> "x"],
   [timestamp |-> 2, price |-> 1, size |-> 20, title |-> "y"]}

KeyEvents ==
  {Merge([type |-> "TRADE", transactionHash |-> h, asset |-> a, side |-> s], r) :
     h \in KeyHashes, a \in KeyAssets, s \in KeySides, r \in KeyRests}

KeyingInit ==
  /\ kvConfig = None
  /\ kvState = None
  /\ kvActivity = <<>>
  /\ feed = <<>>
  /\ clock = MaxTime
  /\ pass = [p \in Passes |-> IdlePass]
  /\ filled = {}
  /\ submitted = {}
  /\ armed = None
  /\ sizing = NoSizing
  /\ appending = None
  /\ cron = NoCron
  /\ \E e1, e2 \in KeyEvents :
       keying = [first |-> Some(e1), second |-> Some(e2), out |-> None]

\* the loop builds the key of each of the two entries
BuildKeys ==
  /\ IsSome(keying.first)
  /\ keying.out = None
  /\ LET e1 == Get(keying.first)
         e2 == Get(keying.second)
     IN keying' = [keying EXCEPT !.out =
                     Some(<<KeyOf(e1.transactionHash, e1.asset, e1.side),
                            KeyOf(e2.transactionHash, e2.asset, e2.side)>>)]
  /\ UNCHANGED <<cron, appending, sizing, kvConfig, kvState, kvActivity, feed, clock, pass, filled,
                 submitted, armed>>

NextKeying == BuildKeys

SpecKeying == KeyingInit /\ [][NextKeying]_vars

\* ===================================================================
\* Properties
\* ===================================================================
\* entries of the fetched page the loop of pass p has gone through
Processed(p) == 1..Len(pass[p].trace)
Act(p, j) == pass[p].activities[j]
Tag(p, j) == pass[p].trace[j]
Key(p, j) == CopyKey(Act(p, j))
\* the engine of pass p has returned from its loop (not the low-balance return)
Returned(p) == pass[p].pc = "persist" /\ IsSome(pass[p].result.lastTimestamp)
InLoop(p) == pass[p].pc = "loop" \/ Returned(p)
\* the in-progress copied set when entry j is reached
CopiedBefore(p, j) ==
  Range(pass[p].state.copiedKeys)
    \cup {Key(p, i) : i \in {i \in 1..(j - 1) : Tag(p, i) = "ok"}}
\* the step sends an order of pass p to the executor
NewOrder(p) == Len(pass'[p].orders) = Len(pass[p].orders) + 1
NewKey(p) == pass'[p].orders[Len(pass'[p].orders)].key
StoredKeys == Range(getState(kvState).copiedKeys)
SetMax(S) == CHOOSE m \in S : \A x \in S : x <= m

\* C1 (as stated): no CopyKey is sent to the executor twice, every invocation counted
C1_NeverSubmittedTwice ==
  [][\A p \in Passes : NewOrder(p) => NewKey(p) \notin submitted]_vars

\* C1 (amended): a CopyKey the executor has filled is never sent to the executor
\* again; only keys whose every earlier submission failed are submitted again
C1_NoSubmissionAfterFill ==
  [][\A p \in Passes : NewOrder(p) => NewKey(p) \notin filled]_vars

\* a later pass meets, in its page, an event whose key an earlier pass filled and
\* persisted, and goes past it without an order
C1_Witness ==
  \E p \in Passes : \E j \in Processed(p) :
    /\ Key(p, j) \in filled
    /\ Key(p, j) \in Range(pass[p].state.copiedKeys)
    /\ Tag(p, j) \in {"skip_ts", "skip_dup"}

\* C2: no pass sends the executor an event whose key is in the stored copiedKeys
C2_StoredKeyNotSubmitted ==
  [][\A p \in Passes : NewOrder(p) => NewKey(p) \notin StoredKeys]_vars

\* a pass reaches the dedup check with a key that is stored, and skips the event
C2_Witness ==
  \E p \in Passes : \E j \in Processed(p) :
    Key(p, j) \in StoredKeys /\ Tag(p, j) = "skip_dup"

\* the eligibility C3 states: measured against the INPUT cursor's lastTimestamp
C3_Eligible(p, j) ==
  LET act == Act(p, j)
      l == pass[p]
  IN /\ act.type = "TRADE" /\ act.asset # "" /\ act.price > 0
     /\ act.timestamp > l.state.lastTimestamp
     /\ (l.isFirstRun => act.timestamp >= l.nowSec - RecencyWindow)
     /\ Key(p, j) \notin CopiedBefore(p, j)
     /\ BetUsd(act, l.cashBalance, l.config) >= l.config.minBetUsd * Scale

\* C3 (as stated): every entry that is valid, newer than the input cursor, inside the
\* first-run window, not yet copied and sized at or above the floor is submitted
C3_EligibleIsSubmitted ==
  \A p \in Passes : \A j \in Processed(p) :
    C3_Eligible(p, j) => Tag(p, j) \in Outcomes

\* C4 (as stated): after a pass, an event whose order failed has its key absent from
\* the returned copiedKeys and its timestamp above the returned lastTimestamp
C4_FailedStaysEligible ==
  \A p \in Passes : Returned(p) =>
    \A j \in Processed(p) : Tag(p, j) \in {"fail", "throw"} =>
      /\ Key(p, j) \notin Range(pass[p].result.copiedKeys)
      /\ Act(p, j).timestamp > Get(pass[p].result.lastTimestamp)

\* C5: the stored lastTimestamp never decreases (serialized passes, no reset)
C5_LastTimestampMonotone ==
  [][getState(kvState)'.lastTimestamp >= getState(kvState).lastTimestamp]_vars

\* a low-balance pass has been persisted over a cursor that had advanced
C5_Witness ==
  /\ getState(kvState).lastTimestamp >= 1
  /\ getState(kvState).lastError = Some("Low balance")

\* C6: a failed order neither stops the loop nor keeps a successful order of the
\* same pass out of the returned copiedKeys and lastTimestamp
C6_FailureIsIsolated ==
  \A p \in Passes :
    /\ pass[p].pc = "loop" => pass[p].i = Len(pass[p].trace) + 1
    /\ Returned(p) =>
         /\ Len(pass[p].trace) = Len(pass[p].activities)
         /\ \A j \in Processed(p) : Tag(p, j) = "ok" =>
              /\ Key(p, j) \in Range(pass[p].result.copiedKeys)
              /\ Get(pass[p].result.lastTimestamp) >= Act(p, j).timestamp

\* a pass has returned with a failed order followed by a successful one
C6_Witness ==
  \E p \in Passes :
    /\ Returned(p)
    /\ \E j, k \in Processed(p) :
         j < k /\ Tag(p, j) \in {"fail", "throw"} /\ Tag(p, k) = "ok"

\* C7: the returned lastTimestamp is the maximum of the input cursor's lastTimestamp
\* and the timestamps of the events whose order succeeded in the pass
C7_ReturnedLastTimestamp ==
  \A p \in Passes : Returned(p) =>
    Get(pass[p].result.lastTimestamp) =
      SetMax({pass[p].state.lastTimestamp}
               \cup {Act(p, j).timestamp : j \in {j \in Processed(p) : Tag(p, j) = "ok"}})

\* a pass has returned having copied an event older than one it skipped or failed
C7_Witness ==
  \E p \in Passes :
    /\ Returned(p)
    /\ \E j, k \in Processed(p) :
         /\ Tag(p, j) \in {"skip_floor", "skip_invalid", "fail", "throw"}
         /\ Tag(p, k) = "ok"
         /\ Act(p, j).timestamp > Act(p, k).timestamp
         /\ Get(pass[p].result.lastTimestamp) = Act(p, k).timestamp

\* C8: first run is lastTimestamp = 0 with no copied key; on a first run an event
\* older than now - 300 s gets no order and adds no key, one at or after that bound
\* is not filtered by the window; on any other run the window filters nothing
C8_RecencyWindow ==
  \A p \in Passes : InLoop(p) =>
    LET l == pass[p] IN
    /\ l.isFirstRun = (l.state.lastTimestamp = 0 /\ l.state.copiedKeys = <<>>)
    /\ \A j \in Processed(p) :
         /\ (l.isFirstRun /\ Act(p, j).timestamp < l.nowSec - RecencyWindow) =>
              /\ Tag(p, j) \notin Outcomes
              /\ Key(p, j) \in Range(l.copiedSet) =>
                   \E i \in Processed(p) : i # j /\ Tag(p, i) = "ok" /\ Key(p, i) = Key(p, j)
         /\ (l.isFirstRun /\ Act(p, j).timestamp >= l.nowSec - RecencyWindow) =>
              Tag(p, j) # "skip_window"
         /\ ~l.isFirstRun => Tag(p, j) # "skip_window"

\* a first-run pass has submitted an event exactly 300 s old and skipped an older one
C8_Witness ==
  \E p \in Passes :
    /\ pass[p].isFirstRun
    /\ \E j, k \in Processed(p) :
         /\ Tag(p, j) \in Outcomes
         /\ Act(p, j).timestamp = pass[p].nowSec - RecencyWindow
         /\ Tag(p, k) = "skip_window"

\* every entry of the fetched page is at or below the input cursor's lastTimestamp
AllOld(p) ==
  \A j \in 1..Len(pass[p].activities) :
    Act(p, j).timestamp <= pass[p].state.lastTimestamp

\* C9: a pass over a page with no entry newer than the cursor submits nothing,
\* returns copied = failed = 0 and the input cursor, and persisting it leaves the
\* stored lastTimestamp and copiedKeys as they were (so a second run repeats it)
C9_NoNewEventsIsIdempotent ==
  [][\A p \in Passes : (Returned(p) /\ AllOld(p)) =>
       LET l == pass[p] IN
       /\ l.orders = <<>>
       /\ l.result.copied = 0 /\ l.result.failed = 0
       /\ l.result.error = None /\ l.result.copiedTrades = <<>>
       /\ Get(l.result.lastTimestamp) = l.state.lastTimestamp
       /\ l.result.copiedKeys = l.state.copiedKeys
       /\ pass'[p].pc = "idle" =>
            /\ getState(kvState)'.lastTimestamp = getState(kvState).lastTimestamp
            /\ getState(kvState)'.copiedKeys = getState(kvState).copiedKeys
            /\ getState(kvState)'.lastTimestamp = l.state.lastTimestamp
            /\ getState(kvState)'.copiedKeys = l.state.copiedKeys]_vars

\* a pass has returned from a non-empty page of old entries, over a non-empty cursor
C9_Witness ==
  \E p \in Passes :
    /\ Returned(p) /\ AllOld(p)
    /\ Len(pass[p].activities) > 0
    /\ pass[p].state.copiedKeys # <<>>

\* C10: a reset leaves lastTimestamp = 0 and copiedKeys = [] in the store, and the
\* pass that follows is a first run: an in-window, valid, sized event at the head of
\* the page is submitted even if its key was stored before the reset, an event is
\* deduplicated only against keys copied in this pass, and older events get no order
C10_ResetRearmsFirstRun ==
  /\ IsSome(armed) =>
       /\ getState(kvState).lastTimestamp = 0
       /\ getState(kvState).copiedKeys = <<>>
  /\ \A p \in Passes : (IsSome(pass[p].cleared) /\ InLoop(p)) =>
       LET l == pass[p] IN
       /\ l.isFirstRun
       /\ \A j \in Processed(p) :
            /\ Act(p, j).timestamp < l.nowSec - RecencyWindow => Tag(p, j) \notin Outcomes
            /\ Tag(p, j) = "skip_dup" =>
                 \E i \in 1..(j - 1) : Tag(p, i) = "ok" /\ Key(p, i) = Key(p, j)
            /\ ( /\ j = 1
                 /\ Act(p, j).type = "TRADE" /\ Act(p, j).asset # "" /\ Act(p, j).price > 0
                 /\ Act(p, j).timestamp >= l.nowSec - RecencyWindow
                 /\ BetUsd(Act(p, j), l.cashBalance, l.config) >= l.config.minBetUsd * Scale )
               => Tag(p, j) \in Outcomes

\* the pass after a reset submits an event whose key the reset cleared, and skips
\* an event older than the window
C10_Witness ==
  \E p \in Passes :
    /\ IsSome(pass[p].cleared)
    /\ \E j, k \in Processed(p) :
         /\ Tag(p, j) \in Outcomes
         /\ Key(p, j) \in Get(pass[p].cleared)
         /\ Tag(p, k) = "skip_window"

\* the engine of pass p took the low-balance return
LowBalance(p) == pass[p].pc = "persist" /\ pass[p].cashBalance < MinBalance

\* C11: a pass whose fetched balance is below the floor fetches no activity, sends
\* no order, returns copied = failed = 0 with error "Low balance", and persisting
\* it leaves the stored lastTimestamp and copiedKeys as they were before the pass
C11_LowBalanceKeepsCursor ==
  [][\A p \in Passes : LowBalance(p) =>
       LET l == pass[p] IN
       /\ l.activities = <<>> /\ l.trace = <<>> /\ l.orders = <<>>
       /\ l.result.copied = 0 /\ l.result.failed = 0
       /\ l.result.error = Some("Low balance")
       /\ l.state = getState(kvState)
       /\ NewOrder(p) = FALSE
       /\ pass'[p].pc = "idle" =>
            /\ getState(kvState)'.lastTimestamp = l.state.lastTimestamp
            /\ getState(kvState)'.copiedKeys = l.state.copiedKeys
            /\ getState(kvState)'.lastError = Some("Low balance")
            /\ submitted' = submitted /\ filled' = filled]_vars

\* a low-balance pass is about to be persisted over a cursor that holds a copied key
\* while the feed holds an event the pass would otherwise have copied
C11_Witness ==
  \E p \in Passes :
    /\ LowBalance(p)
    /\ pass[p].state.copiedKeys # <<>>
    /\ \E j \in 1..Len(feed) : feed[j].timestamp > pass[p].state.lastTimestamp

\* the engine of pass p has not returned a result yet
Engaged(p) == pass[p].pc \in {"balance", "activity", "loop"}

\* C12: a pass that ends before the engine returns (a fetch throws, or the run is
\* cut short at an await, orders sent or not) writes nothing: the stored cursor, its
\* run metadata, the activity log and the config are as before the pass, and the
\* next pass reads that cursor
C12_AbortWritesNothing ==
  [][\A p \in Passes :
       /\ (Engaged(p) /\ pass'[p].pc = "idle") =>
            /\ kvState' = kvState /\ kvActivity' = kvActivity /\ kvConfig' = kvConfig
            /\ getState(kvState)' = pass[p].state
       /\ Engaged(p) => kvState' = kvState
       /\ (pass[p].pc = "idle" /\ pass'[p].pc = "balance") =>
            pass'[p].state = getState(kvState)]_vars

\* a pass was cut short after the executor filled one of its orders, over a stored
\* cursor: the filled key is not in the store
C12_Witness ==
  /\ Quiet
  /\ IsSome(kvState)
  /\ \E k \in filled : k \notin StoredKeys

\* the step writes the result of pass p to the store
Persisting(p) == pass[p].pc = "persist" /\ pass'[p].pc = "idle"

\* C13 (as stated): the caller stores the lastTimestamp and copiedKeys the engine
\* returned (a result without lastTimestamp is held to the copiedKeys part only)
C13_StoresReturnedCursor ==
  [][\A p \in Passes : Persisting(p) =>
       /\ IsSome(pass[p].result.lastTimestamp) =>
            getState(kvState)'.lastTimestamp = Get(pass[p].result.lastTimestamp)
       /\ getState(kvState)'.copiedKeys = pass[p].result.copiedKeys]_vars

\* C13 (amended): the caller stores the returned lastTimestamp and copiedKeys, except
\* that a result without lastTimestamp, or with no copiedKeys, keeps the stored value
\* of that field; lastRunAt is set, lastCopiedAt is set when copied > 0 and otherwise
\* keeps its stored value, lastError becomes the run's error (cleared when none)
C13_PersistedRecord ==
  [][\A p \in Passes : Persisting(p) =>
       LET result == pass[p].result
           old == getState(kvState)
           new == getState(kvState)'
       IN /\ new.lastTimestamp = OrElse(result.lastTimestamp, old.lastTimestamp)
          /\ new.copiedKeys = IF result.copiedKeys # <<>> THEN result.copiedKeys
                              ELSE old.copiedKeys
          /\ new.lastRunAt = Some(clock * 1000)
          /\ new.lastCopiedAt = IF result.copied > 0 THEN Some(clock * 1000)
                                ELSE old.lastCopiedAt
          /\ new.lastError = result.error
          /\ DOMAIN new = DOMAIN old
          /\ kvConfig' = kvConfig]_vars

\* a pass that copied nothing and had no error was persisted after one that copied:
\* lastCopiedAt is older than lastRunAt and lastError is clear
C13_Witness ==
  /\ IsSome(getState(kvState).lastCopiedAt)
  /\ IsSome(getState(kvState).lastRunAt)
  /\ Get(getState(kvState).lastCopiedAt) < Get(getState(kvState).lastRunAt)
  /\ getState(kvState).lastError = None

\* the amount the formula gives for the arguments of the call, in 1/Scale dollars:
\* equity * (minPct/100 + price * (maxPct/100 - minPct/100))
SizingAmount ==
  sizing.equity * (sizing.minPct * PriceUnit + sizing.price * (sizing.maxPct - sizing.minPct))

SizingCall(e, pr, lo, hi, fl) ==
  /\ sizing.equity = e /\ sizing.price = pr /\ sizing.minPct = lo
  /\ sizing.maxPct = hi /\ sizing.minUsd = fl

\* C14: computeBetSize returns the formula's amount n when n >= minUsd and 0 when
\* n < minUsd, never a value strictly between 0 and minUsd, never minUsd for a
\* below-floor amount; size(1000,0,5,10,1) = 50, size(1000,1,5,10,1) = 100,
\* size(10,0.5,5,10,5) = 0
C14_BetSizeFormula ==
  IsSome(sizing.out) =>
    LET n == SizingAmount
        floor == sizing.minUsd * Scale
        out == Get(sizing.out)
    IN /\ n >= floor => out = n
       /\ n < floor => out = 0
       /\ ~(0 < out /\ out < floor)
       /\ SizingCall(1000, 0, 5, 10, 1) => out = 50 * Scale
       /\ SizingCall(1000, PriceUnit, 5, 10, 1) => out = 100 * Scale
       /\ SizingCall(10, 50, 5, 10, 5) => out = 0

\* the call size(10, 0.5, 5, 10, 5), whose amount 0.75 is below the floor, returned 0
C14_Witness ==
  /\ SizingCall(10, 50, 5, 10, 5)
  /\ SizingAmount > 0 /\ SizingAmount < sizing.minUsd * Scale
  /\ sizing.out = Some(0)

\* the orders pass p has sent, and the entry each was built from
Orders(p) == 1..Len(pass[p].orders)
Order(p, n) == pass[p].orders[n]
OrderAct(p, n) == Act(p, Order(p, n).at)

\* C15 (as stated): with minPercent < maxPercent, every order's amount lies between
\* equity * minPercent / 100 and equity * maxPercent / 100 and is at least minBetUsd,
\* and the order's event has a price in (0, 1]
C15_OrderAmountInBand ==
  \A p \in Passes : \A n \in Orders(p) :
    LET l == pass[p]
        a == Order(p, n).amount
    IN l.config.minPercent < l.config.maxPercent =>
         /\ l.cashBalance * l.config.minPercent * PriceUnit <= a
         /\ a <= l.cashBalance * l.config.maxPercent * PriceUnit
         /\ a >= l.config.minBetUsd * Scale
         /\ OrderAct(p, n).price > 0 /\ OrderAct(p, n).price <= PriceUnit

\* C16: while the stored config has enabled = false (or none is stored) a trigger
\* starts no pass: no balance or activity fetch, no order, and the cursor record
\* (lastTimestamp, copiedKeys, lastRunAt, lastError) and activity log are untouched
C16_DisabledTriggerIsNoOp ==
  [][(Quiet /\ ~getConfig(kvConfig).enabled) =>
       /\ pass' = pass
       /\ kvState' = kvState /\ kvActivity' = kvActivity
       /\ submitted' = submitted /\ filled' = filled]_vars

\* copy trading was switched off after a pass had run, and the feed holds an event
\* newer than the stored cursor, which an enabled pass would go on to process
C16_Witness ==
  /\ Quiet
  /\ IsSome(kvConfig) /\ ~getConfig(kvConfig).enabled
  /\ IsSome(getState(kvState).lastRunAt)
  /\ \E j \in 1..Len(feed) : feed[j].timestamp > getState(kvState).lastTimestamp

\* C17: nothing in the engine excludes a second pass: a pass decides from the cursor
\* it was handed, so the event at the head of its page, when eligible by that cursor,
\* is submitted whatever another pass has submitted, filled or persisted meanwhile;
\* two passes in flight over the same cursor, page and balance both submit it
C17_OverlappingPassesBothSubmit ==
  /\ \A p \in Passes :
       (InLoop(p) /\ 1 \in Processed(p) /\ C3_Eligible(p, 1)) => Tag(p, 1) \in Outcomes
  /\ \A p, q \in Passes :
       ( /\ p # q /\ InLoop(p) /\ InLoop(q)
         /\ pass[p].state = pass[q].state
         /\ pass[p].activities = pass[q].activities
         /\ pass[p].cashBalance = pass[q].cashBalance
         /\ 1 \in Processed(p) /\ 1 \in Processed(q) )
       => (Tag(p, 1) \in Outcomes <=> Tag(q, 1) \in Outcomes)

\* two passes in flight over the same cursor have each had the same key filled
C17_Witness ==
  \E p, q \in Passes :
    /\ p # q /\ InLoop(p) /\ InLoop(q)
    /\ pass[p].state = pass[q].state
    /\ \E m \in Orders(p), n \in Orders(q) :
         /\ Order(p, m).key = Order(q, n).key
         /\ Order(p, m).outcome = "ok" /\ Order(q, n).outcome = "ok"

\* shapes of event that are valid and sized at or above the floor for the funded
\* balance and the default percents
LiveShapes ==
  {s \in Shapes :
     /\ s.type = "TRADE" /\ s.asset # "" /\ s.price > 0
     /\ \E b \in Balances :
          b >= MinBalance /\ BetUsd(s, b, DEFAULT_CONFIG) >= DEFAULT_CONFIG.minBetUsd * Scale}

\* the feed holds an event of shape s that is newer than the stored cursor and whose
\* key is not stored
Eligible(s) ==
  /\ CopyKey(s) \notin StoredKeys
  /\ \E j \in 1..Len(feed) :
       /\ feed[j] = Merge(s, [timestamp |-> feed[j].timestamp])
       /\ feed[j].timestamp > getState(kvState).lastTimestamp

\* C18 (as stated): under the fair schedule, every eligible event in the feed is
\* eventually copied: its key enters the stored copiedKeys
C18_EligibleEventuallyCopied ==
  \A s \in LiveShapes : Eligible(s) ~> (CopyKey(s) \in StoredKeys)

\* the direction strings the feed uses, in either case
BuyWords == {"BUY", "buy"}
SellWords == {"SELL", "sell"}

C20_SetConfigMerges ==
  [][kvConfig' # kvConfig =>
       /\ IsSome(kvConfig')
       /\ DOMAIN Get(kvConfig') = DOMAIN DEFAULT_CONFIG
       /\ \E patch \in ConfigBodies :
            \A f \in DOMAIN DEFAULT_CONFIG :
              Get(kvConfig')[f] = IF f \in DOMAIN patch THEN patch[f]
                                  ELSE getConfig(kvConfig)[f]
       /\ kvState' = kvState /\ kvActivity' = kvActivity]_vars

\* three fields were set by separate calls over a reset cursor, the fourth never:
\* each call kept what the earlier ones stored, and minBetUsd is still the default
C20_Witness ==
  /\ IsSome(kvConfig) /\ IsSome(kvState)
  /\ Get(kvConfig).enabled
  /\ Get(kvConfig).minPercent = 20
  /\ Get(kvConfig).maxPercent = 50
  /\ Get(kvConfig).minBetUsd = DEFAULT_CONFIG.minBetUsd

\* the entry is not a trade, or has no asset, or a price that is not positive
Invalid(act) == act.type # "TRADE" \/ act.price <= 0 \/ act.asset = ""

\* the loop of pass p is at an entry
AtEntry(p) == pass[p].pc = "loop" /\ pass[p].i <= Len(pass[p].activities)

\* C21: an entry that is not of type TRADE, has price <= 0 or has no asset gets no
\* order, adds no key, does not advance lastTimestamp and is not counted in failed
\* nor in the error
C21_InvalidEntryIsIgnored ==
  [][\A p \in Passes : (AtEntry(p) /\ Invalid(pass[p].activities[pass[p].i])) =>
       /\ pass'[p].i = pass[p].i + 1
       /\ pass'[p].orders = pass[p].orders
       /\ pass'[p].copiedSet = pass[p].copiedSet
       /\ pass'[p].lastTimestamp = pass[p].lastTimestamp
       /\ pass'[p].result = pass[p].result
       /\ submitted' = submitted /\ filled' = filled
       /\ CopyKey(pass[p].activities[pass[p].i]) \notin StoredKeys]_vars

\* a pass went past a record of another type and a record without asset: it has
\* counted no failure, has no error and its lastTimestamp is the input cursor's
C21_Witness ==
  \E p \in Passes : \E j, k \in Processed(p) :
    /\ Tag(p, j) = "skip_type"
    /\ Tag(p, k) = "skip_invalid" /\ Act(p, k).asset = ""
    /\ pass[p].result.failed = 0 /\ pass[p].result.error = None
    /\ pass[p].lastTimestamp = pass[p].state.lastTimestamp

\* pass p is at the top of its loop, no entry processed yet
LoopStart(p) == pass[p].pc = "loop" /\ pass[p].trace = <<>>

\* C22 (as stated): once an earlier pass has sent an order, filled or not, or the
\* stored lastTimestamp is above 0, a pass runs without the first-run window
C22_WindowOffAfterProcessing ==
  \A p \in Passes : LoopStart(p) =>
    ((submitted # {} \/ getState(kvState).lastTimestamp > 0) => ~pass[p].isFirstRun)

\* what follows from it: a pass skips, by the window, an event whose order an
\* earlier pass sent and the executor did not fill
C22_RetrySkippedByWindow ==
  \E p \in Passes : \E j \in Processed(p) :
    /\ Tag(p, j) = "skip_window"
    /\ Key(p, j) \in submitted \ filled
    /\ \A n \in Orders(p) : Order(p, n).key # Key(p, j)

\* keys the executor filled in a pass whose result never reached the store
FilledAndLost == filled \ StoredKeys

\* C23 (as stated): a key whose order was filled in a pass that ended before its
\* result was persisted is not sent to the executor again by a later pass
C23_LostFillNotResubmitted ==
  [][\A p \in Passes : NewOrder(p) => NewKey(p) \notin FilledAndLost]_vars

\* keys of the orders of pass p the executor filled
OkKeys(p) == {Order(p, n).key : n \in {n \in Orders(p) : Order(p, n).outcome = "ok"}}

\* C24: with serialized passes and no reset the stored copiedKeys only grows: no step
\* removes a key, and persisting a pass adds exactly the keys of the orders of that
\* pass that were filled, none of which was stored before
C24_CopiedKeysOnlyGrow ==
  [][/\ StoredKeys \subseteq StoredKeys'
     /\ \A p \in Passes : Persisting(p) =>
          /\ StoredKeys' = StoredKeys \cup OkKeys(p)
          /\ OkKeys(p) \cap StoredKeys = {}
          /\ Len(getState(kvState)'.copiedKeys) = Cardinality(StoredKeys')]_vars

\* a pass is about to persist a newly filled key on top of a stored one
C24_Witness ==
  \E p \in Passes :
    /\ Returned(p)
    /\ StoredKeys # {}
    /\ OkKeys(p) # {}
    /\ Len(pass[p].result.copiedKeys) > Len(pass[p].state.copiedKeys)

\* C25 (as stated): whatever the sequence of config updates, the stored config has
\* minPercent < maxPercent
C25_PercentsOrdered ==
  getConfig(kvConfig).minPercent < getConfig(kvConfig).maxPercent

C27_EngineIsPure ==
  [][\A p \in Passes : Engaged(p) =>
       /\ kvState' = kvState /\ kvConfig' = kvConfig /\ kvActivity' = kvActivity
       /\ pass'[p].pc # "idle" =>
            /\ pass'[p].state = pass[p].state
            /\ pass'[p].config = pass[p].config
       /\ pass'[p].pc = "persist" /\ pass[p].pc = "loop" =>
            /\ pass'[p].result.copiedKeys = pass[p].copiedSet
            /\ pass'[p].result.lastTimestamp = Some(pass[p].lastTimestamp)]_vars

\* the engine has returned a cursor that differs from the one it was handed, which
\* is still the stored one
C27_Witness ==
  \E p \in Passes :
    /\ Returned(p)
    /\ IsSome(kvState) /\ pass[p].state = getState(kvState)
    /\ pass[p].state.copiedKeys # <<>>
    /\ pass[p].result.copiedKeys # pass[p].state.copiedKeys
    /\ Get(pass[p].result.lastTimestamp) > pass[p].state.lastTimestamp

\* C28 (as stated): within one pass, a key whose order was not filled is not sent to
\* the executor again, also when the page holds the event more than once
C28_FailedNotResubmittedInPass ==
  \A p \in Passes : \A m, n \in Orders(p) :
    (m < n /\ Order(p, m).outcome # "ok") => Order(p, n).key # Order(p, m).key

\* the page of pass p is ordered by non-increasing timestamp
Sorted(p) ==
  \A j, k \in 1..Len(pass[p].activities) :
    j < k => Act(p, j).timestamp >= Act(p, k).timestamp

C30_ResultCountsAgree ==
  \A p \in Passes : Returned(p) =>
    LET result == pass[p].result
        input == Range(pass[p].state.copiedKeys)
        returned == Range(result.copiedKeys)
    IN /\ result.copied = Len(result.copiedTrades)
       /\ result.copied = Cardinality(returned \ input)
       /\ input \subseteq returned
       /\ result.failed = Cardinality({n \in Orders(p) : Order(p, n).outcome # "ok"})
       /\ result.failed = 0 => result.error = None

\* a pass has returned with one order that threw and one that was filled
C30_Witness ==
  \E p \in Passes :
    /\ Returned(p)
    /\ pass[p].result.copied = 1 /\ pass[p].result.failed = 1
    /\ \E n \in Orders(p) : Order(p, n).outcome = "throw"
    /\ IsSome(pass[p].result.error)

\* ---------------------------------------------------------------------
\* the pass p is in flight
Busy(p) == pass[p].pc # "idle"

\* the orders of pass p are for distinct entries of its page, in page order
OneOrderPerEntry(p) ==
  LET o == pass[p].orders IN
  /\ \A n \in 1..Len(o) : o[n].at \in 1..Len(pass[p].activities)
  /\ \A m, n \in 1..Len(o) : m < n => o[m].at < o[n].at

\* C31: provided every external call returns or throws, a pass terminates; it submits
\* at most one order per entry of the fetched page, so at most PageLimit orders; a
\* failed order is followed by the next entry, never by the same entry again (the
\* loop index is one past the entries gone through, and only moves forward)
C31_PassTerminates ==
  /\ [](\A p \in Passes :
          /\ Len(pass[p].activities) <= PageLimit
          /\ Len(pass[p].orders) <= Len(pass[p].activities)
          /\ OneOrderPerEntry(p)
          /\ InLoop(p) => pass[p].i = Len(pass[p].trace) + 1
          /\ pass[p].result.copied + pass[p].result.failed = Len(pass[p].orders))
  /\ (Busy(1) ~> Resting(1))

\* a pass over a full page whose first order failed has gone on to the next entry
\* and submitted it as well
C31_Witness ==
  /\ Returned(1)
  /\ Len(pass[1].activities) = PageLimit
  /\ Len(pass[1].orders) = PageLimit
  /\ pass[1].orders[1].outcome # "ok"

\* ---------------------------------------------------------------------
\* the step is the handler of pass p persisting its result
Persists(p) == pass[p].pc = "persist" /\ pass'[p].pc = "idle" /\ kvState' # kvState

\* timestamps of the entries of pass p whose orders the executor filled
OkTimes(p) ==
  {Act(p, Order(p, n).at).timestamp : n \in {n \in Orders(p) : Order(p, n).outcome = "ok"}}

\* C32 (as stated): when a reset completed while pass p was in flight, the cursor
\* stored once p has persisted holds only keys p itself copied, and a lastTimestamp
\* that is 0 or the timestamp of an event p itself copied
C32_ResetInFlightNotLost ==
  [][\A p \in Passes :
       (Persists(p) /\ IsSome(armed)) =>
         /\ Range(getState(kvState').copiedKeys) \subseteq OkKeys(p)
         /\ getState(kvState').lastTimestamp \in {0} \cup OkTimes(p)]_vars

\* ---------------------------------------------------------------------
\* C33 (as stated): with overlapping passes, whenever a pass persists, the stored
\* cursor keeps every key stored before (what the other pass copied and persisted
\* included), holds the keys this pass copied, and its lastTimestamp is at least the
\* one stored before and the one this pass returned: once both passes have persisted
\* no successful copy is forgotten and lastTimestamp has not moved backwards
C33_OverlapKeepsCopies ==
  [][\A p \in Passes :
       Persists(p) =>
         /\ StoredKeys \cup OkKeys(p) \subseteq Range(getState(kvState').copiedKeys)
         /\ getState(kvState').lastTimestamp >= getState(kvState).lastTimestamp
         /\ getState(kvState').lastTimestamp >= OrElse(pass[p].result.lastTimestamp, 0)]_vars

\* ---------------------------------------------------------------------
\* the step serves a request the route has not just served
Served == cron'.request # cron.request \/ cron'.status # cron.status

\* the step touches nothing a pass reads or writes: no config or cursor read, no
\* fetch, no order, no write
NoPass ==
  UNCHANGED <<kvConfig, kvState, kvActivity, feed, pass, filled, submitted, armed>>

\* C34: with CRON_SECRET configured, a GET whose Authorization header is not exactly
\* "Bearer <CRON_SECRET>" is answered 401 and starts nothing; a POST, whatever its
\* header, is answered by the route and starts nothing
C34_UnauthorizedTriggerIsNoOp ==
  [][Served =>
       LET r == cron'.request
           secret == cron.secret
       IN /\ (/\ r.method = "GET"
              /\ IsSome(secret) /\ Get(secret) # ""
              /\ r.authorization # Some("Bearer " \o Get(secret)))
               => (cron'.status = Some(401) /\ NoPass)
          /\ r.method = "POST" => (cron'.status # None /\ NoPass)]_vars

\* copy trading is enabled, CRON_SECRET is set, and the route has just answered 401
\* to a GET carrying the secret without the Bearer scheme: no pass is in flight
C34_Witness ==
  /\ getConfig(kvConfig).enabled
  /\ cron.secret = Some("s3cret")
  /\ cron.request = [method |-> "GET", authorization |-> Some("s3cret")]
  /\ cron.status = Some(401)
  /\ Quiet

\* ---------------------------------------------------------------------
\* C35 (as stated): computeBetSize returns 0 whenever the equity is 0 or negative,
\* for every price in (0, 1] and every stored minPercent, maxPercent and minBetUsd
C35_NoEquityNoBet ==
  (/\ IsSome(sizing.out)
   /\ sizing.equity <= 0
   /\ sizing.price \in 1..PriceUnit)
    => Get(sizing.out) = 0

\* ---------------------------------------------------------------------
\* a direction string with its letter case folded
Fold(s) ==
  CASE s \in {"BUY", "buy", "Buy"} -> "buy"
    [] s \in {"SELL", "sell", "Sell"} -> "sell"
    [] OTHER -> s

\* the triple the key stands for: the transaction reference (missing: empty), the
\* asset, the direction without its case (missing: BUY)
Triple(e) ==
  <<OrElse(e.transactionHash, ""), e.asset, Fold(OrElse(e.side, "BUY"))>>

\* C36 (as stated): two fetched events get the same key exactly when they have the
\* same transaction reference, the same asset and the same direction up to case,
\* whatever their timestamp, price, size and title
C36_KeyIdentifiesTriple ==
  IsSome(keying.out) =>
    LET e1 == Get(keying.first)
        e2 == Get(keying.second)
        keys == Get(keying.out)
    IN (keys[1] = keys[2]) <=> (Triple(e1) = Triple(e2))

====
